---- MODULE Spec2Model ----
(***************************************************************************)
(* Morton3D (src/lib.rs): a usize holding a 3-dimensional Morton code,     *)
(* with the most-significant bit used as a flag.                           *)
(*                                                                         *)
(* A usize is modelled at its real width (32 or 64 bits) as the set of the *)
(* positions of its 1-bits: bit i of the word is 1 iff i is in the set.    *)
(* Bitwise operators are set operators restricted to 0..width-1; + 1 and   *)
(* - 1 are ripple carry / ripple borrow over the bit positions, with the   *)
(* overflow reported so that the build's overflow checks can act on it.    *)
(***************************************************************************)
EXTENDS Integers, Sequences, FiniteSets, TLC

VARIABLES
    target_pointer_width,  \* cfg(target_pointer_width): 32 or 64, fixed by the build
    overflow_checks,       \* the build profile's overflow-checks (on in dev/test, off in release)
    morton,                \* self.0 of the Morton3D value the caller holds
    panicked,              \* TRUE once an operation has panicked
    hist,                  \* the calls made so far: [op, n, before]
    round,                 \* test_max: iterations of the loop done
    pc                     \* "api": free use of the interface; "loop"/"done"/"failed": test_max

vars == <<target_pointer_width, overflow_checks, morton, panicked, hist, round, pc>>

\* Longest sequence of calls explored from an initial value.
MaxSteps == 2

-----------------------------------------------------------------------------
(* usize and its operators *)

\* const NUM_BITS_USIZE: usize = size_of::<usize>() * 8
NUM_BITS_USIZE == target_pointer_width

\* const MAX_DEPTH: usize = NUM_BITS_USIZE / 3
MAX_DEPTH == NUM_BITS_USIZE \div 3

\* The bit positions of a usize.
BitPositions == 0 .. (NUM_BITS_USIZE - 1)

\* The usize written as a literal k (k < 2^31), as its set of 1-bits.
RECURSIVE BitsFrom(_, _)
BitsFrom(k, i) ==
    IF k = 0 THEN {}
    ELSE (IF k % 2 = 1 THEN {i} ELSE {}) \cup BitsFrom(k \div 2, i + 1)

Lit(k) == BitsFrom(k, 0)

\* !a, a & b, a | b, a << k, a >> k on usize
BitNot(a) == BitPositions \ a
BitAnd(a, b) == a \cap b
BitOr(a, b) == a \cup b
Shl(a, k) == {i + k : i \in a} \cap BitPositions
Shr(a, k) == {i - k : i \in a} \cap BitPositions

\* a + 1 overflows iff every bit of a is 1.
AddOverflows(a) == \A i \in BitPositions : i \in a

\* a - 1 overflows iff a is 0.
SubOverflows(a) == a = {}

\* a + 1 when it does not overflow: the carry ripples through the low 1-bits
\* and stops at the lowest 0-bit, k.
Successor(a) ==
    LET k == CHOOSE i \in BitPositions : i \notin a /\ \A j \in 0 .. (i - 1) : j \in a
    IN  (a \ (0 .. (k - 1))) \cup {k}

\* a - 1 when it does not overflow: the borrow ripples through the low 0-bits
\* and stops at the lowest 1-bit, k.
Predecessor(a) ==
    LET k == CHOOSE i \in a : \A j \in 0 .. (i - 1) : j \notin a
    IN  (a \ {k}) \cup (0 .. (k - 1))

\* The outcome of an expression: a value, or a panic.
Ok(v) == [ok |-> TRUE, val |-> v]
Panic == [ok |-> FALSE, val |-> {}]

\* Rust's `a + 1` / `a - 1` on usize: on overflow it panics when the build has
\* overflow checks, and wraps (to 0, resp. to usize::MAX) otherwise.
AddOne(a) ==
    IF AddOverflows(a)
    THEN (IF overflow_checks THEN Panic ELSE Ok({}))
    ELSE Ok(Successor(a))

\* Mutant: the subtraction never checks for overflow (wrapping_sub).
SubOne_wrapping(a) ==
    IF SubOverflows(a) THEN Ok(BitPositions) ELSE Ok(Predecessor(a))

SubOne(a) ==
    IF SubOverflows(a)
    THEN (IF overflow_checks THEN Panic ELSE Ok(BitPositions))
    ELSE Ok(Predecessor(a))

-----------------------------------------------------------------------------
(* Morton3D *)

\* const MASK (64-bit): 0b0_001_001_..._001, 21 groups
MASK64 == {3 * l : l \in 0 .. 20}

\* const MASK (32-bit): 0b00_001_..._001, 10 groups
MASK32 == {3 * l : l \in 0 .. 9}

\* The widths a usize has: target_pointer_width = "32" or "64".
Widths == {32, 64}

\* The MASK the build of width w selects by cfg(target_pointer_width).
MaskFor(w) == IF w = 64 THEN MASK64 ELSE MASK32

MASK == MaskFor(target_pointer_width)

\* mask_n is a const fn called with n = 0, 1, 2 only (decrease_x .. increase_z):
\* the build has three masks MASK << k, and their complements !(MASK << k).
\* The bits shifted past the word's width are lost.
MaskShl ==
    [w \in Widths |-> [k \in 0 .. 2 |->
        {i + k : i \in MaskFor(w)} \cap (0 .. (w - 1))]]

MaskShlNot ==
    [w \in Widths |-> [k \in 0 .. 2 |-> (0 .. (w - 1)) \ MaskShl[w][k]]]

\* 1 << (NUM_BITS_USIZE - 1)
FlagBit == Shl(Lit(1), NUM_BITS_USIZE - 1)

\* (self.0 >> (NUM_BITS_USIZE - 1)) == 1
is_flag_set(self) == Shr(self, NUM_BITS_USIZE - 1) = Lit(1)

\* self.0 |= 1 << (NUM_BITS_USIZE - 1)
set_flag(self) == BitOr(self, FlagBit)

\* Mutant: the ! is missing, self.0 &= 1 << (NUM_BITS_USIZE - 1).
unset_flag_no_not(self) == BitAnd(self, FlagBit)

\* self.0 &= !(1 << (NUM_BITS_USIZE - 1))
unset_flag(self) == BitAnd(self, BitNot(FlagBit))

\* Mutant: MASK << (n % 2).
mask_n_mod2(n) == MaskShl[target_pointer_width][n % 2]

\* MASK << (n % 3)
mask_n(n) == MaskShl[target_pointer_width][n % 3]

\* !Self::mask_n(n)
not_mask_n(n) == MaskShlNot[target_pointer_width][n % 3]

\* Mutant: the axis bits are not isolated before the subtraction,
\* ((self.0 - 1) & mask_n(n)) | (self.0 & !mask_n(n)).
decrease_nth_dim_unmasked(self, n) ==
    LET m == mask_n(n)
        d == SubOne(self)
    IN  IF ~d.ok THEN Panic
        ELSE Ok(BitOr(BitAnd(d.val, m), BitAnd(self, not_mask_n(n))))

\* Mutant: the difference is not masked, so the borrow's 1-bits stay in the
\* other axes: ((self.0 & mask_n(n)) - 1) | (self.0 & !mask_n(n)).
decrease_nth_dim_borrow_kept(self, n) ==
    LET m == mask_n(n)
        d == SubOne(BitAnd(self, m))
    IN  IF ~d.ok THEN Panic
        ELSE Ok(BitOr(d.val, BitAnd(self, not_mask_n(n))))

\* (((self.0 & mask_n(n)) - 1) & mask_n(n)) | (self.0 & !mask_n(n))
decrease_nth_dim(self, n) ==
    LET m == mask_n(n)
        d == SubOne(BitAnd(self, m))
    IN  IF ~d.ok THEN Panic
        ELSE Ok(BitOr(BitAnd(d.val, m), BitAnd(self, not_mask_n(n))))

\* Mutant: the foreign bits are cleared, not set, before the addition,
\* (((self.0 & mask_n(n)) + 1) & mask_n(n)) | (self.0 & !mask_n(n)).
increase_nth_dim_no_fill(self, n) ==
    LET m == mask_n(n)
        s == AddOne(BitAnd(self, m))
    IN  IF ~s.ok THEN Panic
        ELSE Ok(BitOr(BitAnd(s.val, m), BitAnd(self, not_mask_n(n))))

\* Mutant: the other bits are not put back, ((self.0 | !mask_n(n)) + 1) & mask_n(n).
increase_nth_dim_rest_dropped(self, n) ==
    LET m == mask_n(n)
        s == AddOne(BitOr(self, not_mask_n(n)))
    IN  IF ~s.ok THEN Panic
        ELSE Ok(BitAnd(s.val, m))

\* Mutant: the old value is put back whole,
\* (((self.0 | !mask_n(n)) + 1) & mask_n(n)) | self.0.
increase_nth_dim_old_kept(self, n) ==
    LET m == mask_n(n)
        s == AddOne(BitOr(self, not_mask_n(n)))
    IN  IF ~s.ok THEN Panic
        ELSE Ok(BitOr(BitAnd(s.val, m), self))

\* (((self.0 | !mask_n(n)) + 1) & mask_n(n)) | (self.0 & !mask_n(n))
increase_nth_dim(self, n) ==
    LET m == mask_n(n)
        nm == not_mask_n(n)
        s == AddOne(BitOr(self, nm))
    IN  IF ~s.ok THEN Panic
        ELSE Ok(BitOr(BitAnd(s.val, m), BitAnd(self, nm)))

decrease_x(self) == decrease_nth_dim(self, 0)
decrease_y(self) == decrease_nth_dim(self, 1)
decrease_z(self) == decrease_nth_dim(self, 2)
increase_x(self) == increase_nth_dim(self, 0)
increase_y(self) == increase_nth_dim(self, 1)

\* Mutant: increase_z increases y.
increase_z_on_y(self) == increase_nth_dim(self, 1)

increase_z(self) == increase_nth_dim(self, 2)

-----------------------------------------------------------------------------
(* The values a caller can hold: From<usize> accepts any word. *)

\* A coordinate given by the levels at which its bit is 1, laid on axis n.
Dilate(levels, n) == {3 * l + n : l \in levels}

\* Coordinates to start from, for a depth d: 0, 1, 3, and the maximum less 0, 1, 3.
SeedCoords(d) ==
    {{}, {0}, {0, 1}, 0 .. (d - 1), 1 .. (d - 1), 2 .. (d - 1)}

SeedWords(w) ==
    LET d == w \div 3
    IN  { Dilate(x, 0) \cup Dilate(y, 1) \cup Dilate(z, 2) \cup hi :
            x \in SeedCoords(d), y \in {{}, {0}, 0 .. (d - 1)},
            z \in {{}, 1 .. (d - 1), 0 .. (d - 1)}, hi \in SUBSET ((3 * d) .. (w - 1)) }

\* The values test_inc and test_dec start from: 0b000_001 and 0b010_000_101.
TestWords == {Lit(1), Lit(133)}

Init ==
    /\ target_pointer_width \in Widths
    /\ overflow_checks \in BOOLEAN
    /\ morton \in SeedWords(target_pointer_width) \cup TestWords
    /\ panicked = FALSE
    /\ hist = <<>>
    /\ round = 0
    /\ pc = "api"

\* A call of a method that returns a new Morton3D or panics.
Call(op, n, r) ==
    /\ pc = "api"
    /\ ~panicked
    /\ Len(hist) < MaxSteps
    /\ hist' = Append(hist, [op |-> op, n |-> n, before |-> morton])
    /\ morton' = IF r.ok THEN r.val ELSE morton
    /\ panicked' = ~r.ok
    /\ UNCHANGED <<target_pointer_width, overflow_checks, round, pc>>

DoDecreaseX == Call("decrease", 0, decrease_x(morton))
DoDecreaseY == Call("decrease", 1, decrease_y(morton))
DoDecreaseZ == Call("decrease", 2, decrease_z(morton))
DoIncreaseX == Call("increase", 0, increase_x(morton))
DoIncreaseY == Call("increase", 1, increase_y(morton))
DoIncreaseZ == Call("increase", 2, increase_z(morton))
DoSetFlag == Call("set_flag", 3, Ok(set_flag(morton)))
DoUnsetFlag == Call("unset_flag", 3, Ok(unset_flag(morton)))

Next ==
    \/ DoDecreaseX
    \/ DoDecreaseY
    \/ DoDecreaseZ
    \/ DoIncreaseX
    \/ DoIncreaseY
    \/ DoIncreaseZ
    \/ DoSetFlag
    \/ DoUnsetFlag

Spec == Init /\ [][Next]_vars

-----------------------------------------------------------------------------
(* tests::test_max *)

\* morton.increase_x(), then .increase_y(), then .increase_z(): a call that
\* panics ends the chain.
TestMaxBody(v) ==
    LET a == increase_x(v)
    IN  IF ~a.ok THEN a
        ELSE LET b == increase_y(a.val)
             IN  IF ~b.ok THEN b ELSE increase_z(b.val)

\* The literal of assert_eq! in test_max: 21 groups 111 under a 0 (64-bit),
\* 10 groups 111 under 00 (32-bit).
TestMaxExpected == IF target_pointer_width = 64 THEN 0 .. 62 ELSE 0 .. 29

\* 2_u64.pow(MAX_DEPTH) - 1
TestMaxRounds == 2 ^ MAX_DEPTH - 1

\* let mut morton = Morton3D(0). The test is built by `cargo test`, whose profile
\* has overflow checks on: an increase that met an axis at its maximum would panic.
InitMax ==
    /\ target_pointer_width \in Widths
    /\ overflow_checks = TRUE
    /\ morton = Lit(0)
    /\ panicked = FALSE
    /\ hist = <<>>
    /\ round = 0
    /\ pc = "loop"

\* One iteration: morton = morton.increase_x(); .increase_y(); .increase_z()
TestMaxRound ==
    /\ pc = "loop"
    /\ round < TestMaxRounds
    /\ \E r \in {TestMaxBody(morton)} :
           /\ morton' = IF r.ok THEN r.val ELSE morton
           /\ panicked' = ~r.ok
           /\ pc' = IF r.ok THEN "loop" ELSE "failed"
    /\ round' = round + 1
    /\ UNCHANGED <<target_pointer_width, overflow_checks, hist>>

\* assert_eq!(morton, Morton3D(0b0_111_..._111))
TestMaxAssert ==
    /\ pc = "loop"
    /\ round = TestMaxRounds
    /\ pc' = IF morton = TestMaxExpected THEN "done" ELSE "failed"
    /\ panicked' = (morton # TestMaxExpected)
    /\ UNCHANGED <<target_pointer_width, overflow_checks, morton, hist, round>>

NextMax ==
    \/ TestMaxRound
    \/ TestMaxAssert

SpecMax == InitMax /\ [][NextMax]_vars

-----------------------------------------------------------------------------
(* Reading a word *)

\* The positions of axis n's bits: bits n, n+3, n+6, ..., one per level.
AxisPositions(n) == {3 * l + n : l \in 0 .. (MAX_DEPTH - 1)}

\* The integer read from axis n's bits of v, from level l up: the bit of level l
\* weighs 2^l.
RECURSIVE CoordFrom(_, _, _)
CoordFrom(v, n, l) ==
    IF l = MAX_DEPTH THEN 0
    ELSE (IF (3 * l + n) \in v THEN 2 ^ l ELSE 0) + CoordFrom(v, n, l + 1)

\* The coordinate of v on axis n.
Coord(v, n) == CoordFrom(v, n, 0)

\* Axis n's bits are all 1 / all 0.
AtMax(v, n) == \A l \in 0 .. (MAX_DEPTH - 1) : (3 * l + n) \in v
AtZero(v, n) == \A l \in 0 .. (MAX_DEPTH - 1) : (3 * l + n) \notin v

\* The flag bit's position.
FlagPos == NUM_BITS_USIZE - 1

\* The value call i returned (the value held is unchanged by a call that panicked).
After(i) == IF i < Len(hist) THEN hist[i + 1].before ELSE morton

\* Call i panicked: only the last call can have.
Panicked(i) == i = Len(hist) /\ panicked

Calls == 1 .. Len(hist)

-----------------------------------------------------------------------------
(* Calls of the interface *)

AxisCalls == {i \in Calls : hist[i].op \in {"increase", "decrease"}}

\* What call `c` (a record of hist) does to the value v.
Apply(c, v) ==
    CASE c.op = "increase" -> increase_nth_dim(v, c.n)
      [] c.op = "decrease" -> decrease_nth_dim(v, c.n)
      [] c.op = "set_flag" -> Ok(set_flag(v))
      [] c.op = "unset_flag" -> Ok(unset_flag(v))

\* C1: an increase on an axis whose coordinate is not at its maximum returns a
\* value whose coordinate on that axis is the old one plus 1.
C1_IncreaseAddsOne ==
    \A i \in Calls :
        (hist[i].op = "increase" /\ ~AtMax(hist[i].before, hist[i].n)) =>
            /\ ~Panicked(i)
            /\ Coord(After(i), hist[i].n) = Coord(hist[i].before, hist[i].n) + 1

\* test_inc's first two steps: 0b000_001 -> 0b000_011 -> 0b010_001, the second
\* one carrying from level 0 to level 1 across the x and z bits.
C1_Witness ==
    /\ Len(hist) = 2
    /\ hist[1] = [op |-> "increase", n |-> 1, before |-> Lit(1)]
    /\ hist[2] = [op |-> "increase", n |-> 1, before |-> Lit(3)]
    /\ morton = Lit(17)
    /\ Coord(morton, 1) = 2

\* C2: a decrease on an axis whose coordinate is not 0 returns a value whose
\* coordinate on that axis is the old one minus 1.
C2_DecreaseSubtractsOne ==
    \A i \in Calls :
        (hist[i].op = "decrease" /\ ~AtZero(hist[i].before, hist[i].n)) =>
            /\ ~Panicked(i)
            /\ Coord(After(i), hist[i].n) = Coord(hist[i].before, hist[i].n) - 1

\* test_dec's first two steps: 0b010_000_101 -> 0b000_010_111 -> 0b000_010_101,
\* the first one borrowing from level 2 down to level 0.
C2_Witness ==
    /\ Len(hist) = 2
    /\ hist[1] = [op |-> "decrease", n |-> 1, before |-> Lit(133)]
    /\ hist[2] = [op |-> "decrease", n |-> 1, before |-> Lit(23)]
    /\ morton = Lit(21)
    /\ Coord(hist[1].before, 1) = 4
    /\ Coord(morton, 1) = 2

\* C3: an increase or decrease on axis n that returns a value changes no bit
\* outside axis n: the other axes' bits and the flag bit are as they were.
C3_NonInterference ==
    \A i \in AxisCalls :
        ~Panicked(i) =>
            /\ \A b \in (0 .. 2) \ {hist[i].n} :
                 After(i) \cap mask_n(b) = hist[i].before \cap mask_n(b)
            /\ (FlagPos \in After(i)) <=> (FlagPos \in hist[i].before)
            /\ After(i) \ mask_n(hist[i].n) = hist[i].before \ mask_n(hist[i].n)

\* An increase that carried through two levels of a word whose flag and other
\* axes hold 1-bits.
C3_Witness ==
    /\ Len(hist) = 1
    /\ hist[1].op = "increase"
    /\ hist[1].n = 0
    /\ ~panicked
    /\ Coord(hist[1].before, 0) = 3
    /\ Coord(morton, 0) = 4
    /\ FlagPos \in morton
    /\ AtMax(morton, 1)
    /\ Coord(morton, 2) > 0

\* C4: set_flag makes the most-significant bit 1 and unset_flag makes it 0, and
\* neither changes another bit; is_flag_set is true exactly when that bit is 1.
C4_FlagIndependence ==
    /\ \A i \in Calls :
         /\ hist[i].op = "set_flag" =>
              ~Panicked(i) /\ After(i) = hist[i].before \cup {FlagPos}
         /\ hist[i].op = "unset_flag" =>
              ~Panicked(i) /\ After(i) = hist[i].before \ {FlagPos}
         /\ is_flag_set(hist[i].before) <=> (FlagPos \in hist[i].before)
    /\ is_flag_set(morton) <=> (FlagPos \in morton)

\* A flag set after an axis operation, on a word whose coordinate bits (and, at
\* 32 bits, whose unused bit) are not all 0.
C4_Witness ==
    /\ Len(hist) = 2
    /\ hist[1].op = "decrease"
    /\ hist[2].op = "set_flag"
    /\ ~is_flag_set(hist[2].before)
    /\ is_flag_set(morton)
    /\ target_pointer_width = 32
    /\ FlagPos - 1 \in morton
    /\ Coord(morton, 0) > 0

\* The axis masks are pairwise disjoint.
MasksDisjoint ==
    \A a, b \in 0 .. 2 : a # b => mask_n(a) \cap mask_n(b) = {}

MaskUnion == mask_n(0) \cup mask_n(1) \cup mask_n(2)

\* C5, as stated: at both widths the three masks are pairwise disjoint and
\* cover every bit but the most-significant one.
C5_MasksCoverNonFlagBits ==
    /\ MasksDisjoint
    /\ MaskUnion = BitPositions \ {FlagPos}

\* C5, amended: the masks are pairwise disjoint and cover bits 0 .. 3*MAX_DEPTH-1:
\* every bit but the flag bit at 64 bits; every bit but the flag bit and the
\* unused bit 30 at 32 bits.
C5_MasksCoverCoordinateBits ==
    /\ MasksDisjoint
    /\ MaskUnion = 0 .. (3 * MAX_DEPTH - 1)
    /\ target_pointer_width = 64 => MaskUnion = BitPositions \ {FlagPos}
    /\ target_pointer_width = 32 => MaskUnion = BitPositions \ {FlagPos, FlagPos - 1}
    /\ \A n \in 0 .. 2 : mask_n(n) = AxisPositions(n)

\* A 32-bit word whose unused bit is 1 and belongs to no mask.
C5_Witness ==
    /\ target_pointer_width = 32
    /\ 30 \in morton
    /\ 30 \notin MaskUnion
    /\ morton \cap mask_n(1) # {}
    /\ Len(hist) = 1

\* The call is an increase of an axis at its maximum, or a decrease of one at 0.
AtBoundary(i) ==
    \/ hist[i].op = "increase" /\ AtMax(hist[i].before, hist[i].n)
    \/ hist[i].op = "decrease" /\ AtZero(hist[i].before, hist[i].n)

\* The value call i returns if the axis wraps: its bits all 0 after an increase,
\* all 1 after a decrease, the other bits kept.
Wrapped(i) ==
    IF hist[i].op = "increase"
    THEN hist[i].before \ AxisPositions(hist[i].n)
    ELSE hist[i].before \cup AxisPositions(hist[i].n)

\* C6, as stated: at the boundary the operation signals no error and returns
\* the wrapped value.
C6_WrapsSilently ==
    \A i \in AxisCalls :
        AtBoundary(i) => ~Panicked(i) /\ After(i) = Wrapped(i)

\* C6, amended: at the boundary the operation returns the wrapped value when the
\* build has no overflow checks (release), and panics when it has them (dev, test).
C6_WrapsUnlessChecked ==
    \A i \in AxisCalls :
        AtBoundary(i) =>
            IF overflow_checks
            THEN Panicked(i) /\ morton = hist[i].before
            ELSE ~Panicked(i) /\ After(i) = Wrapped(i)

\* Without overflow checks: z wrapped from its maximum to 0, then back.
C6_Witness ==
    /\ ~overflow_checks
    /\ Len(hist) = 2
    /\ hist[1].op = "increase" /\ hist[1].n = 2 /\ AtMax(hist[1].before, 2)
    /\ hist[2].op = "decrease" /\ hist[2].n = 2 /\ AtZero(hist[2].before, 2)
    /\ morton = hist[1].before
    /\ FlagPos \in morton

\* C7: the operation panics exactly when it cannot increase / decrease the axis.
C7_PanicsAtBoundary ==
    \A i \in AxisCalls : Panicked(i) <=> AtBoundary(i)

\* The axis coordinate is neither 0 nor the maximum.
Interior(v, n) == ~AtZero(v, n) /\ ~AtMax(v, n)

\* C8: from a value strictly inside axis n's range, increase then decrease, and
\* decrease then increase, on axis n return the value started from.
C8_RoundTrip ==
    \A i \in AxisCalls :
        (/\ i < Len(hist)
         /\ hist[i + 1].op \in {"increase", "decrease"}
         /\ hist[i + 1].op # hist[i].op
         /\ hist[i + 1].n = hist[i].n
         /\ Interior(hist[i].before, hist[i].n)) =>
            ~Panicked(i + 1) /\ After(i + 1) = hist[i].before

\* y went from 1 to 0 and back to 1, in a word with the flag set.
C8_Witness ==
    /\ Len(hist) = 2
    /\ hist[1].op = "decrease" /\ hist[1].n = 1
    /\ hist[2].op = "increase" /\ hist[2].n = 1
    /\ Coord(hist[1].before, 1) = 1
    /\ AtZero(hist[2].before, 1)
    /\ morton = hist[1].before
    /\ FlagPos \in morton
    /\ ~panicked

\* The outcome of call c then call d from the value v.
Both(c, d, v) == LET r == Apply(c, v) IN IF r.ok THEN Apply(d, r.val) ELSE r

\* Calls i and j touch different parts of the word: two axes, or an axis and the flag.
DifferentParts(c, d) ==
    /\ c.n # d.n
    /\ c.op \in {"increase", "decrease"} \/ d.op \in {"increase", "decrease"}

\* The outcome of calls i and i+1 as they ran.
Outcome(i) ==
    IF Panicked(i) \/ Panicked(i + 1) THEN Panic ELSE Ok(After(i + 1))

AnyCalls ==
    [op : {"increase", "decrease"}, n : 0 .. 2, before : {{}}]
        \cup [op : {"set_flag", "unset_flag"}, n : {3}, before : {{}}]

\* C10: two consecutive calls on different parts of the word give, in the other
\* order, the same value or a panic as well; and a call that panicked panics
\* also when a call on another part of the word is made before it.
C10_Commute ==
    /\ \A i \in Calls :
         (i < Len(hist) /\ DifferentParts(hist[i], hist[i + 1])) =>
             Both(hist[i + 1], hist[i], hist[i].before) = Outcome(i)
    /\ \A i \in Calls :
         Panicked(i) =>
             \A d \in AnyCalls :
                 DifferentParts(hist[i], d) => ~Both(d, hist[i], hist[i].before).ok

\* x was increased with a carry and z decreased with a borrow; in the other
\* order the same value comes out.
C10_Witness ==
    /\ Len(hist) = 2
    /\ hist[1].op = "increase" /\ hist[1].n = 0
    /\ hist[2].op = "decrease" /\ hist[2].n = 2
    /\ Coord(hist[1].before, 0) = 3
    /\ Coord(morton, 0) = 4
    /\ ~AtZero(hist[2].before, 2)
    /\ ~AtMax(morton, 2)
    /\ ~panicked
    /\ Both(hist[2], hist[1], hist[1].before) = Ok(morton)

-----------------------------------------------------------------------------
(* test_max *)

AllCoordinateBits == AxisPositions(0) \cup AxisPositions(1) \cup AxisPositions(2)

\* C9, as stated: after 2^MAX_DEPTH - 1 rounds of increase_x; increase_y;
\* increase_z from zero, every bit but the flag bit is 1 and the flag bit is 0,
\* and no step met an axis at its maximum.
C9_AllNonFlagBitsSet ==
    /\ pc = "loop" /\ round < TestMaxRounds => \A n \in 0 .. 2 : ~AtMax(morton, n)
    /\ ~panicked
    /\ round = TestMaxRounds => morton = BitPositions \ {FlagPos}

\* C9, amended: the bits that end up 1 are the 3 * MAX_DEPTH coordinate bits
\* (all 63 non-flag bits of the 64-bit word, bits 0..29 of the 32-bit word);
\* the flag bit, and the 32-bit word's unused bit 30, are 0. While the loop runs,
\* the low level of the three axes counts the rounds, and no round starts with
\* an axis at its maximum, so no increase panics and the test's assertion passes.
C9_AllCoordinateBitsSet ==
    /\ pc = "loop" /\ round < TestMaxRounds => \A n \in 0 .. 2 : ~AtMax(morton, n)
    /\ pc = "loop" => \A n \in 0 .. 2 : (n \in morton) <=> (round % 2 = 1)
    /\ ~panicked
    /\ pc # "failed"
    /\ round = TestMaxRounds =>
         /\ morton = AllCoordinateBits
         /\ morton = TestMaxExpected
         /\ FlagPos \notin morton
         /\ target_pointer_width = 64 => morton = BitPositions \ {FlagPos}
         /\ target_pointer_width = 32 => morton = BitPositions \ {FlagPos, FlagPos - 1}

\* The 32-bit test has passed: after 2^10 - 1 rounds bits 0..29 are 1, and the
\* unused bit 30 and the flag bit 31 are 0.
C9_Witness ==
    /\ pc = "done"
    /\ target_pointer_width = 32
    /\ round = 2 ^ 10 - 1
    /\ morton = 0 .. 29
    /\ \A n \in 0 .. 2 : AtMax(morton, n) /\ Coord(morton, n) = round

====
